---- MODULE Spec2Model ----
(***************************************************************************)
(* Model of homework.py: a bot that polls the Yandex Practicum homework    *)
(* API and forwards status changes to a Telegram chat.                     *)
(*                                                                         *)
(* Python values are modelled as follows.                                  *)
(*   - a dict is a function whose DOMAIN is its key set;                   *)
(*   - a list is a sequence;                                               *)
(*   - where the code tests isinstance, the value carries its type:        *)
(*     [type |-> "dict", val |-> ...], [type |-> "list", val |-> ...];     *)
(*   - None is the string None below (no status of the inputs equals it);  *)
(*   - str.format is the tuple of the template's name and its arguments;   *)
(*   - an exception is [by |-> the function that raised it,                *)
(*     type |-> class name, text |-> its message].                         *)
(* The Russian texts of the source are not representable in the strings    *)
(* of the module, so each text is named by the constant that holds it.     *)
(***************************************************************************)
EXTENDS Integers, Sequences, FiniteSets, TLC

VARIABLES
    TOKENS,             \* homework.py:28  module-level dict of the three settings
    pc,                 \* position of main
    current_timestamp,  \* homework.py:220 PollCursor
    status_cache,       \* homework.py:221 StatusCache
    response,           \* local of main, line 225
    homeworks,          \* local of main, line 226
    homework,           \* local of main, line 228
    message,            \* local of main, lines 230 and 237
    error,              \* the exception bound by "except Exception as error"
    uncaught,           \* the exception that ended main, if one did
    request,            \* params of the last requests.get: what the API saw
    fetched,            \* number of requests.get calls in this cycle
    attempts,           \* bot.send_message calls of this cycle, in order
    start,              \* PollCursor and StatusCache when this cycle began
    prev,               \* summary of the previous cycle
    announced,          \* status of the last delivered status notification
    call,               \* a direct call of one function: its name and arguments
    result              \* what that call returned or raised

vars == <<TOKENS, pc, current_timestamp, status_cache, response, homeworks,
          homework, message, error, uncaught, request, fetched, attempts,
          start, prev, announced, call, result>>

-----------------------------------------------------------------------------
(* Bounds of the inputs *)

MaxDate == 2          \* current_date of a response ranges over 0..MaxDate
MaxHomeworks == 2     \* longest homeworks list of a response

-----------------------------------------------------------------------------
(* Constants of the program *)

None == "<None>"

RETRY_PERIOD == 600
HTTPStatus_OK == 200
SERVICE_UNAVAILABLE == 503

TOKEN_NAMES == <<"PRACTICUM_TOKEN", "TELEGRAM_TOKEN", "TELEGRAM_CHAT_ID">>

\* the table with two of its texts exchanged
HOMEWORK_VERDICTS_swapped ==
    [approved  |-> "VERDICT_REJECTED",
     reviewing |-> "VERDICT_REVIEWING",
     rejected  |-> "VERDICT_APPROVED"]

HOMEWORK_VERDICTS ==
    [approved  |-> "VERDICT_APPROVED",
     reviewing |-> "VERDICT_REVIEWING",
     rejected  |-> "VERDICT_REJECTED"]

\* str.format of a template with its arguments
Format(template, args) == <<template>> \o args

\* an exception: the function that raised it, its class, its message
Exc(by, type, text) == [by |-> by, type |-> type, text |-> text]
NoError == Exc("", "NoError", <<>>)

Return(v) == [ok |-> TRUE, val |-> v]
Raise(e) == [ok |-> FALSE, exc |-> e]

Dict(d) == [type |-> "dict", val |-> d]
List(s) == [type |-> "list", val |-> s]
NotJson == [type |-> "invalid"]
Unbound == [type |-> "unbound"]      \* a local of main not assigned yet

isinstance(v, t) == v.type = t

-----------------------------------------------------------------------------
(* The functions of homework.py, as operators.  Each returns Return(v) or   *)
(* Raise(e).  What the outside world answers (the HTTP reply, the outcome   *)
(* of the Telegram call) is a parameter.                                    *)

\* "key in value" for the decoded bodies of the model: a dict or a list of dicts
Contains(v, key) ==
    IF isinstance(v, "dict") THEN key \in DOMAIN v.val ELSE FALSE

\* the query parameters of the request (homework.py:145)
request_params(timestamp) == [from_date |-> timestamp]

\* homework.py:143-170.  reply is what requests.get does: it raises
\* RequestException, or returns a response with a status_code and a body.
get_api_answer(timestamp, reply) ==
    LET params == request_params(timestamp)
        json == reply.json
    IN  IF reply.kind = "RequestException"
        THEN Raise(Exc("get_api_answer", "ConnectionError",
                       Format("API_REQUEST_ERROR", <<params>>)))
        ELSE IF reply.status_code # HTTPStatus_OK
        THEN Raise(Exc("get_api_answer", "StatusCodeError",
                       Format("STATUS_CODE_ERROR", <<reply.status_code, params>>)))
        ELSE IF json = NotJson
        THEN Raise(Exc("get_api_answer", "JSONDecodeError", <<"json">>))
        ELSE IF Contains(json, "error") \/ Contains(json, "code")
        THEN IF ~Contains(json, "code")
             THEN Raise(Exc("get_api_answer", "builtins.KeyError", <<"code">>))
             ELSE IF ~Contains(json, "error")
             THEN Raise(Exc("get_api_answer", "builtins.KeyError", <<"error">>))
             ELSE Raise(Exc("get_api_answer", "ResponseError",
                            Format("RESPONSE_ERROR",
                                   <<json.val["code"], json.val["error"]>>)))
        ELSE Return(json)

\* check_response that asks for the homeworks key alone
check_response_homeworks_only(resp) ==
    IF ~isinstance(resp, "dict")
    THEN Raise(Exc("check_response", "TypeError",
                   Format("TYPE_ERROR_RESPONSE", <<resp.type>>)))
    ELSE IF "homeworks" \notin DOMAIN resp.val
    THEN Raise(Exc("check_response", "KeyError",
                   Format("KEY_ERROR", <<"homeworks">>)))
    ELSE IF ~isinstance(resp.val["homeworks"], "list")
    THEN Raise(Exc("check_response", "TypeError",
                   Format("TYPE_ERROR_HOMEWORK", <<resp.val["homeworks"].type>>)))
    ELSE Return(resp.val["homeworks"])

\* homework.py:173-184
check_response(resp) ==
    IF ~isinstance(resp, "dict")
    THEN Raise(Exc("check_response", "TypeError",
                   Format("TYPE_ERROR_RESPONSE", <<resp.type>>)))
    ELSE IF "homeworks" \notin DOMAIN resp.val
    THEN Raise(Exc("check_response", "KeyError",
                   Format("KEY_ERROR", <<"homeworks">>)))
    ELSE IF "current_date" \notin DOMAIN resp.val
    THEN Raise(Exc("check_response", "KeyError",
                   Format("KEY_ERROR", <<"current_date">>)))
    ELSE IF ~isinstance(resp.val["homeworks"], "list")
    THEN Raise(Exc("check_response", "TypeError",
                   Format("TYPE_ERROR_HOMEWORK", <<resp.val["homeworks"].type>>)))
    ELSE Return(resp.val["homeworks"])

\* parse_status without the test of line 195: HOMEWORK_VERDICTS.get returns
\* None for a status that is no key
parse_status_unchecked(hw) ==
    IF "homework_name" \notin DOMAIN hw
    THEN Raise(Exc("parse_status", "KeyError",
                   Format("KEY_ERROR", <<"homework_name">>)))
    ELSE IF "status" \notin DOMAIN hw
    THEN Raise(Exc("parse_status", "KeyError",
                   Format("KEY_ERROR", <<"status">>)))
    ELSE Return(Format("PARSE_STATUS",
                       <<hw["homework_name"],
                         IF hw["status"] \in DOMAIN HOMEWORK_VERDICTS
                         THEN HOMEWORK_VERDICTS[hw["status"]] ELSE None>>))

\* homework.py:187-198
parse_status(hw) ==
    IF "homework_name" \notin DOMAIN hw
    THEN Raise(Exc("parse_status", "KeyError",
                   Format("KEY_ERROR", <<"homework_name">>)))
    ELSE IF "status" \notin DOMAIN hw
    THEN Raise(Exc("parse_status", "KeyError",
                   Format("KEY_ERROR", <<"status">>)))
    ELSE IF hw["status"] \notin DOMAIN HOMEWORK_VERDICTS
    THEN Raise(Exc("parse_status", "HomeworkStatusError",
                   Format("STATUS_EXEPTION", <<hw["status"]>>)))
    ELSE Return(Format("PARSE_STATUS",
                       <<hw["homework_name"], HOMEWORK_VERDICTS[hw["status"]]>>))

\* homework.py:130-140.  outcome is what bot.send_message does.
send_message(outcome, text) ==
    IF outcome = "TelegramError"
    THEN Raise(Exc("send_message", "SendMessageError",
                   Format("MESSAGE_SEND_ERROR", <<text>>)))
    ELSE Return(None)

\* homework.py:204.  "for name, token in TOKENS" iterates the keys of the dict
\* and unpacks each key, a string, into two targets: a key that is not two
\* characters long raises ValueError, a key of two characters binds token to
\* its second character, which is never None.
RECURSIVE check_tokens_loop(_, _, _)
check_tokens_loop(tokens, i, is_correct) ==
    IF i > Len(TOKEN_NAMES)
    THEN Return(is_correct)
    ELSE IF Len(TOKEN_NAMES[i]) # 2
    THEN Raise(Exc("check_tokens", "ValueError", <<"too many values to unpack">>))
    ELSE check_tokens_loop(tokens, i + 1, is_correct)

check_tokens_passes(tokens) == Return(TRUE)

\* homework.py:201-209
check_tokens(tokens) == check_tokens_loop(tokens, 1, TRUE)

-----------------------------------------------------------------------------
(* What the outside world can answer *)

Absent == "<absent>"

\* a homework record: a dict with or without each of its two keys
Record(name, status) ==
    [k \in (IF name = Absent THEN {} ELSE {"homework_name"}) \cup
           (IF status = Absent THEN {} ELSE {"status"})
       |-> IF k = "homework_name" THEN name ELSE status]

\* status values: the keys of HOMEWORK_VERDICTS, a string that is no key,
\* JSON null (decoded as None)
Statuses == DOMAIN HOMEWORK_VERDICTS \cup {"unknown", None}

FirstRecords ==
    {Record(n, s) : n \in {"hw1", Absent}, s \in Statuses \cup {Absent}}

\* the records that may follow the first one
OtherRecords == {Record("hw2", "approved"), Record("hw2", Absent)}

HomeworkLists ==
    {<<>>} \cup
    {<<f>> \o t : f \in FirstRecords,
                  t \in UNION {[1..n -> OtherRecords] : n \in 0..(MaxHomeworks - 1)}}

ValidBodies ==
    {Dict([homeworks |-> List(l), current_date |-> d]) :
        l \in HomeworkLists, d \in 0..MaxDate}

\* bodies that get_api_answer or check_response refuses
RefusedBodies ==
    {NotJson,
     List(<<>>),
     Dict([error |-> "e"]),
     Dict([code |-> "c"]),
     Dict([error |-> "e", code |-> "c"]),
     Dict([code |-> "c", homeworks |-> List(<<>>), current_date |-> 0]),
     Dict([current_date |-> 0]),
     Dict([homeworks |-> List(<<>>)]),
     Dict([homeworks |-> Dict(<<>>), current_date |-> 0])}

Replies ==
    {[kind |-> "RequestException"],
     [kind |-> "response", status_code |-> SERVICE_UNAVAILABLE, json |-> NotJson]}
    \cup {[kind |-> "response", status_code |-> HTTPStatus_OK, json |-> b] :
            b \in ValidBodies \cup RefusedBodies}

DeliveryOutcomes == {"ok", "TelegramError"}

\* the values a setting can have in the environment
TokenValues == {None, "t1", "t2", "t3", "t4"}

-----------------------------------------------------------------------------
(* main *)

NoCycle ==
    [ran |-> FALSE, cache |-> None, first |-> <<>>, error |-> NoError,
     attempts |-> <<>>]

Locals ==
    /\ response = Unbound
    /\ homeworks = Unbound
    /\ homework = Unbound
    /\ message = <<>>
    /\ error = NoError
    /\ uncaught = NoError
    /\ request = Unbound
    /\ fetched = 0
    /\ attempts = <<>>
    /\ prev = NoCycle
    /\ announced = None

\* the process before main runs: the module is loaded, TOKENS is read from the
\* environment (homework.py:28-32)
InitMain ==
    /\ TOKENS \in [{TOKEN_NAMES[i] : i \in 1..Len(TOKEN_NAMES)} -> TokenValues]
    /\ pc = "main"
    /\ current_timestamp = Unbound
    /\ status_cache = Unbound
    /\ start = Unbound
    /\ Locals
    /\ call = Unbound
    /\ result = Unbound

\* main at the head of its loop for the first time (homework.py:218-223),
\* all three settings present.  A run of main as written ends in check_tokens
\* before it gets here (see Main and SpecMain); the loop is specified on its
\* own, from the state that lines 218-221 establish.
Init ==
    /\ TOKENS \in [{TOKEN_NAMES[i] : i \in 1..Len(TOKEN_NAMES)} -> {"t1"}]
    /\ pc = "fetch"
    /\ current_timestamp = 0
    /\ status_cache = None
    /\ start = [timestamp |-> 0, cache |-> None]
    /\ Locals
    /\ call = Unbound
    /\ result = Unbound

Attempt(kind, text, r) == [kind |-> kind, text |-> text, delivered |-> r.ok]

\* homework.py:214-221: the start of main, up to the head of the loop
Main ==
    /\ pc = "main"
    /\ UNCHANGED <<call, result>>
    /\ LET r == check_tokens(TOKENS)
       IN  IF ~r.ok
           THEN /\ pc' = "terminated"
                /\ uncaught' = r.exc
                /\ UNCHANGED <<current_timestamp, status_cache, start>>
           ELSE IF ~r.val
           THEN /\ pc' = "terminated"
                /\ uncaught' =
                       Exc("main", "ValueError", <<"TOKENS_LOAD_UNCORRECTLY">>)
                /\ UNCHANGED <<current_timestamp, status_cache, start>>
           ELSE /\ pc' = "fetch"
                /\ current_timestamp' = 0
                /\ status_cache' = None
                /\ start' = [timestamp |-> 0, cache |-> None]
                /\ UNCHANGED uncaught
    /\ UNCHANGED <<TOKENS, response, homeworks, homework, message, error,
                   request, fetched, attempts, prev, announced>>

\* homework.py:225
Fetch ==
    /\ pc = "fetch"
    /\ UNCHANGED <<call, result>>
    /\ \E reply \in Replies :
         LET r == get_api_answer(current_timestamp, reply)
         IN  /\ request' = request_params(current_timestamp)
             /\ fetched' = fetched + 1
             /\ IF r.ok
                THEN /\ response' = r.val
                     /\ pc' = "check"
                     /\ UNCHANGED error
                ELSE /\ error' = r.exc
                     /\ pc' = "except"
                     /\ UNCHANGED response
    /\ UNCHANGED <<TOKENS, uncaught, current_timestamp, status_cache, homeworks,
                   homework, message, attempts, start, prev, announced>>

\* homework.py:226
Check ==
    /\ pc = "check"
    /\ UNCHANGED <<call, result>>
    /\ LET r == check_response(response)
       IN  IF r.ok
           THEN /\ homeworks' = r.val
                /\ pc' = "inspect"
                /\ UNCHANGED error
           ELSE /\ error' = r.exc
                /\ pc' = "except"
                /\ UNCHANGED homeworks
    /\ UNCHANGED <<TOKENS, uncaught, current_timestamp, status_cache, response,
                   homework, message, request, fetched, attempts, start, prev,
                   announced>>

\* the truth value of a list (homework.py:227, "if homeworks:")
truth_never_tested(l) == TRUE
truth(l) == Len(l.val) > 0

\* l[-1]
last_item(l) ==
    IF Len(l.val) = 0
    THEN Raise(Exc("main", "IndexError", <<"list index out of range">>))
    ELSE Return(l.val[Len(l.val)])

\* l[0] (homework.py:228)
first_item(l) ==
    IF Len(l.val) = 0
    THEN Raise(Exc("main", "IndexError", <<"list index out of range">>))
    ELSE Return(l.val[1])

\* d[key] (homework.py:229 and 232)
getitem(d, key) ==
    IF key \notin DOMAIN d
    THEN Raise(Exc("main", "builtins.KeyError", <<key>>))
    ELSE Return(d[key])

\* the test of homework.py:229
status_changed_always(cache, status) == TRUE
status_changed(cache, status) == cache # status

\* where main goes when the list is empty: past the whole "if" block, line 235
\* included (homework.py:227-235)
after_empty_list_advances == "advance"
after_empty_list == "sleep"

\* homework.py:227-229 and 233-234: the truth test of the list, the first
\* record, the comparison with status_cache
Inspect ==
    /\ pc = "inspect"
    /\ UNCHANGED <<call, result>>
    /\ IF ~truth(homeworks)
       THEN /\ pc' = after_empty_list
            /\ UNCHANGED <<homework, error>>
       ELSE LET hw == first_item(homeworks)
            IN  IF ~hw.ok
                THEN /\ error' = hw.exc
                     /\ pc' = "except"
                     /\ UNCHANGED homework
                ELSE LET status == getitem(hw.val, "status")
                     IN  /\ homework' = hw.val
                         /\ IF ~status.ok
                            THEN /\ error' = status.exc
                                 /\ pc' = "except"
                            ELSE /\ pc' = IF status_changed(status_cache, status.val)
                                          THEN "parse" ELSE "advance"
                                 /\ UNCHANGED error
    /\ UNCHANGED <<TOKENS, uncaught, current_timestamp, status_cache, response,
                   homeworks, message, request, fetched, attempts, start, prev,
                   announced>>

\* homework.py:230
Parse ==
    /\ pc = "parse"
    /\ UNCHANGED <<call, result>>
    /\ LET r == parse_status(homework)
       IN  IF r.ok
           THEN /\ message' = r.val
                /\ pc' = "notify"
                /\ UNCHANGED error
           ELSE /\ error' = r.exc
                /\ pc' = "except"
                /\ UNCHANGED message
    /\ UNCHANGED <<TOKENS, uncaught, current_timestamp, status_cache, response,
                   homeworks, homework, request, fetched, attempts, start, prev,
                   announced>>

\* status_cache after send_message returned or raised (homework.py:231-232):
\* the assignment of line 232 is reached only when line 231 did not raise
cache_set_before_send(r, cache, status) == status
cache_never_set(r, cache, status) == cache
cache_after_send(r, cache, status) == IF r.ok THEN status ELSE cache

\* homework.py:231-232
Notify ==
    /\ pc = "notify"
    /\ UNCHANGED <<call, result>>
    /\ \E outcome \in DeliveryOutcomes :
         LET r == send_message(outcome, message)
         IN  /\ attempts' = Append(attempts, Attempt("status", message, r))
             /\ status_cache' =
                    cache_after_send(r, status_cache, homework["status"])
             /\ IF r.ok
                THEN /\ announced' = homework["status"]
                     /\ pc' = "advance"
                     /\ UNCHANGED error
                ELSE /\ error' = r.exc
                     /\ pc' = "except"
                     /\ UNCHANGED announced
    /\ UNCHANGED <<TOKENS, uncaught, current_timestamp, response, homeworks,
                   homework, message, request, fetched, start, prev>>

\* PollCursor after line 235
timestamp_minus_period(resp) == resp.val["current_date"] - RETRY_PERIOD
timestamp_after(resp) == resp.val["current_date"]

\* homework.py:235
Advance ==
    /\ pc = "advance"
    /\ UNCHANGED <<call, result>>
    /\ current_timestamp' = timestamp_after(response)
    /\ pc' = "sleep"
    /\ UNCHANGED <<TOKENS, uncaught, status_cache, response, homeworks, homework,
                   message, error, request, fetched, attempts, start, prev,
                   announced>>

\* the test of homework.py:239: the exception, an instance, is compared with
\* the class TelegramError, and no instance equals a class
differs_from_TelegramError(e) == TRUE

\* the handler with a delivery that is tried again when it fails
Except_retries ==
    /\ pc = "except"
    /\ UNCHANGED <<call, result>>
    /\ LET text == Format("ERROR", <<error.text>>)
       IN  /\ message' = text
           /\ \E outcome \in DeliveryOutcomes :
                LET r == send_message(outcome, text)
                IN  /\ attempts' = Append(attempts, Attempt("error", text, r))
                    /\ pc' = IF r.ok THEN "sleep" ELSE "except"
    /\ UNCHANGED <<TOKENS, current_timestamp, status_cache, response, homeworks,
                   homework, error, uncaught, request, fetched, start, prev,
                   announced>>

\* homework.py:236-240.  An exception that send_message raises here is raised
\* inside the handler, outside any try: it leaves the loop and main.
Except ==
    /\ pc = "except"
    /\ UNCHANGED <<call, result>>
    /\ LET text == Format("ERROR", <<error.text>>)
       IN  /\ message' = text
           /\ IF differs_from_TelegramError(error)
              THEN \E outcome \in DeliveryOutcomes :
                     LET r == send_message(outcome, text)
                     IN  /\ attempts' = Append(attempts, Attempt("error", text, r))
                         /\ IF r.ok
                            THEN /\ pc' = "sleep"
                                 /\ UNCHANGED uncaught
                            ELSE /\ pc' = "terminated"
                                 /\ uncaught' = r.exc
              ELSE /\ pc' = "sleep"
                   /\ UNCHANGED <<attempts, uncaught>>
    /\ UNCHANGED <<TOKENS, current_timestamp, status_cache, response, homeworks,
                   homework, error, request, fetched, start, prev, announced>>

\* what a cycle leaves for the next one to be compared with
Summary ==
    [ran |-> TRUE,
     cache |-> start.cache,
     first |-> IF homeworks = Unbound \/ Len(homeworks.val) = 0
               THEN <<>> ELSE <<homeworks.val[1]>>,
     error |-> error,
     attempts |-> attempts]

\* homework.py:241 and the return to the head of the loop.  The locals of the
\* finished cycle are never read again before they are assigned, and
\* "except ... as error" unbinds error: they go back to Unbound.
Sleep ==
    /\ pc = "sleep"
    /\ UNCHANGED <<call, result>>
    /\ pc' = "fetch"
    /\ prev' = Summary
    /\ start' = [timestamp |-> current_timestamp, cache |-> status_cache]
    /\ response' = Unbound
    /\ homeworks' = Unbound
    /\ homework' = Unbound
    /\ message' = <<>>
    /\ error' = NoError
    /\ fetched' = 0
    /\ attempts' = <<>>
    /\ UNCHANGED <<TOKENS, uncaught, current_timestamp, status_cache, request,
                   announced>>

Next == Fetch \/ Check \/ Inspect \/ Parse \/ Notify \/ Advance \/ Except \/ Sleep

\* the loop of main, from its first cycle on
Spec == Init /\ [][Next]_vars

\* a run of main from the start of the process
SpecMain == InitMain /\ [][Main]_vars

-----------------------------------------------------------------------------
(* What a cycle has done so far, read from the state *)

\* validation succeeded in this cycle: check_response returned the list
Validated == homeworks # Unbound
HasRecord == Validated /\ Len(homeworks.val) > 0
First == homeworks.val[1]
FirstHasStatus == HasRecord /\ "status" \in DOMAIN First

\* the cycle is over: main is at time.sleep, or an exception ended it
AtSleep == pc = "sleep"
CycleOver == pc \in {"sleep", "terminated"}

StatusAttempts(as) == {i \in 1..Len(as) : as[i].kind = "status"}
StatusSent(as) == Cardinality({i \in StatusAttempts(as) : as[i].delivered})

\* the status notification of this cycle was attempted and not delivered
StatusSendFailed(as) == \E i \in StatusAttempts(as) : ~as[i].delivered

AnyAbsent == \E n \in DOMAIN TOKENS : TOKENS[n] = None

-----------------------------------------------------------------------------
(* C1: once main is in its loop, no failure of the fetch, validate, parse  *)
(* or notify steps ends the process, a failure to deliver the diagnostic   *)
(* message included: main is never ended by an exception.                  *)
C1_NoFailureEndsMain == pc # "terminated"

(* C2: with one of the three settings absent, main ends with an exception  *)
(* before its loop: no request to the API and no call of the bot is made.  *)
C2_MissingTokenFailsFast ==
    (AnyAbsent /\ pc # "main") =>
        /\ pc = "terminated"
        /\ uncaught # NoError
        /\ fetched = 0
        /\ request = Unbound
        /\ attempts = <<>>

C2_Witness == AnyAbsent /\ pc = "terminated"

(* C3: a cycle that fetched and validated a list with a record, whose      *)
(* first record's status differs from StatusCache, and in which            *)
(* parse_status and the delivery succeeded, has sent exactly one           *)
(* notification, the message parse_status returns for that record, and     *)
(* leaves StatusCache equal to that record's status.                       *)
C3_Case ==
    /\ AtSleep
    /\ FirstHasStatus
    /\ First["status"] # start.cache
    /\ parse_status(First).ok
    /\ error = NoError

C3_ChangeNotifiedOnce ==
    C3_Case =>
        /\ Len(attempts) = 1
        /\ attempts[1].delivered
        /\ attempts[1].text = parse_status(First).val
        /\ status_cache = First["status"]

C3_Witness == C3_Case /\ start.cache # None /\ Len(homeworks.val) > 1

\* two consecutive cycles, the second one at its sleep, that both ran without
\* a failure and whose first records carry the same status
C4_TwoCycles ==
    /\ AtSleep
    /\ error = NoError
    /\ FirstHasStatus
    /\ prev.ran
    /\ prev.error = NoError
    /\ Len(prev.first) = 1
    /\ "status" \in DOMAIN prev.first[1]
    /\ prev.first[1]["status"] = First["status"]

(* C4, as stated: over any two consecutive successful cycles whose first   *)
(* record has the same status, exactly one status notification is sent     *)
(* in total.  Stated for the statuses of HOMEWORK_VERDICTS.                *)
C4_ExactlyOneOverTwoCycles ==
    (C4_TwoCycles /\ First["status"] \in DOMAIN HOMEWORK_VERDICTS) =>
        StatusSent(prev.attempts) + StatusSent(attempts) = 1

(* C4, amended: over two such cycles the second sends nothing and the      *)
(* first sends exactly one status notification if StatusCache differed     *)
(* from the status before it and none otherwise; and any cycle whose first *)
(* record's status equals StatusCache makes no notification attempt.       *)
C4_AtMostOneOverTwoCycles ==
    /\ C4_TwoCycles =>
          /\ attempts = <<>>
          /\ StatusSent(prev.attempts) =
                 IF prev.cache # First["status"] THEN 1 ELSE 0
    /\ (FirstHasStatus /\ First["status"] = start.cache) => attempts = <<>>

C4_Witness ==
    /\ C4_TwoCycles
    /\ prev.cache # First["status"]
    /\ StatusSent(prev.attempts) = 1

\* the cycle after one whose status notification was not delivered, over,
\* with the same first record
C5_NextCycle ==
    /\ CycleOver
    /\ prev.ran
    /\ StatusSendFailed(prev.attempts)
    /\ HasRecord
    /\ <<First>> = prev.first

(* C5: when the delivery of the status notification fails, StatusCache and *)
(* PollCursor keep the values they had when the cycle began, and the next  *)
(* cycle that returns the same first record sees the status as changed and *)
(* attempts the same status notification again.                            *)
C5_FailedDeliveryIsRetried ==
    /\ StatusSendFailed(attempts) =>
          /\ status_cache = start.cache
          /\ current_timestamp = start.timestamp
    /\ C5_NextCycle =>
          /\ First["status"] # start.cache
          /\ Len(attempts) >= 1
          /\ attempts[1].kind = "status"
          /\ attempts[1].text = prev.attempts[1].text

C5_Witness == C5_NextCycle /\ AtSleep /\ attempts[1].delivered

(* C6: a cycle in which get_api_answer, check_response or parse_status     *)
(* fails makes exactly one notification attempt, with the diagnostic       *)
(* message that embeds the failure, leaves PollCursor and StatusCache as   *)
(* they were and goes on to its sleep.                                     *)
C6_FailureTakesErrorPath ==
    (CycleOver /\ error.by \in {"get_api_answer", "check_response", "parse_status"})
    =>  /\ Len(attempts) = 1
        /\ attempts[1].kind = "error"
        /\ attempts[1].text = Format("ERROR", <<error.text>>)
        /\ current_timestamp = start.timestamp
        /\ status_cache = start.cache
        /\ pc = "sleep"

(* C7: a valid response whose homeworks list is empty leads to no          *)
(* notification attempt and leaves StatusCache as it was.                  *)
C7_EmptyListIsSilent ==
    (Validated /\ Len(homeworks.val) = 0) =>
        /\ attempts = <<>>
        /\ error = NoError
        /\ status_cache = start.cache
        /\ pc \in {"inspect", "sleep"}

C7_Witness ==
    AtSleep /\ Validated /\ Len(homeworks.val) = 0 /\ start.cache # None

(* C8, as stated: PollCursor after a cycle is never smaller than before    *)
(* the cycle, whatever the API answers.                                    *)
C8_NeverDecreases == current_timestamp >= start.timestamp

(* C8, amended: PollCursor after a cycle is its value before the cycle or  *)
(* the current_date of the cycle's response, so it does not decrease in a  *)
(* cycle whose response carries a current_date that is not smaller than    *)
(* the PollCursor the cycle began with.                                    *)
C8_FollowsCurrentDate ==
    /\ current_timestamp # start.timestamp =>
          Validated /\ current_timestamp = response.val["current_date"]
    /\ (Validated /\ response.val["current_date"] >= start.timestamp) =>
          current_timestamp >= start.timestamp

C8_Witness == AtSleep /\ current_timestamp > start.timestamp /\ start.timestamp > 0

(* C9: every request carries from_date = PollCursor; PollCursor changes    *)
(* only at the end of a cycle that had a record and no failure, and then   *)
(* becomes the response's current_date; a cycle with an empty list or a    *)
(* failure leaves it as it was.                                            *)
C9_CursorFrame ==
    /\ fetched > 0 =>
          /\ fetched = 1
          /\ request = request_params(start.timestamp)
          /\ request.from_date = start.timestamp
    /\ current_timestamp # start.timestamp =>
          AtSleep /\ error = NoError /\ HasRecord
    /\ (AtSleep /\ error = NoError /\ HasRecord) =>
          current_timestamp = response.val["current_date"]
    /\ (CycleOver /\ (error # NoError \/ (Validated /\ ~HasRecord))) =>
          current_timestamp = start.timestamp

C9_Witness ==
    /\ AtSleep
    /\ request.from_date > 0
    /\ current_timestamp # start.timestamp

(* C10: StatusCache changes only in a cycle whose first record's status    *)
(* differs from it, and then to that status; a cycle with the same status, *)
(* with an empty list or with a failure leaves it as it was.               *)
C10_CacheFrame ==
    /\ status_cache # start.cache =>
          /\ FirstHasStatus
          /\ First["status"] # start.cache
          /\ status_cache = First["status"]
    /\ error # NoError => status_cache = start.cache
    /\ (Validated /\ ~HasRecord) => status_cache = start.cache

C10_Witness == AtSleep /\ status_cache # start.cache /\ start.cache # None

\* a cycle, over, whose first record has a homework_name and carries a
\* status that is no key of HOMEWORK_VERDICTS
C11_UnknownStatus ==
    /\ CycleOver
    /\ FirstHasStatus
    /\ "homework_name" \in DOMAIN First
    /\ First["status"] \notin DOMAIN HOMEWORK_VERDICTS

\* the error path after parse_status refused the status: no status
\* notification, StatusCache and PollCursor as they were
C11_ErrorPath ==
    /\ error = Exc("parse_status", "HomeworkStatusError",
                   Format("STATUS_EXEPTION", <<First["status"]>>))
    /\ StatusAttempts(attempts) = {}
    /\ status_cache = start.cache
    /\ current_timestamp = start.timestamp

(* C11: whatever StatusCache is, the initial None included, a cycle whose  *)
(* first record carries a status that is no key of HOMEWORK_VERDICTS fails *)
(* in parse_status with HomeworkStatusError and takes the error path: no   *)
(* status notification, StatusCache and PollCursor unchanged.              *)
C11_UnknownStatusAlwaysFails == C11_UnknownStatus => C11_ErrorPath

\* what main does with such a record: the error path when the status differs
\* from StatusCache, and otherwise (a null status while StatusCache is still
\* None) the path of an unchanged status, on which PollCursor advances
C11_UnknownStatusPaths ==
    C11_UnknownStatus =>
        IF First["status"] # start.cache
        THEN C11_ErrorPath
        ELSE /\ First["status"] = None
             /\ error = NoError
             /\ attempts = <<>>
             /\ status_cache = start.cache
             /\ current_timestamp = response.val["current_date"]

-----------------------------------------------------------------------------
(* The functions called on their own, each on every input of a bounded set *)

\* what check_response can be given: every decoded body, and a dict whose
\* homeworks is no list and whose current_date is missing
CallBodies ==
    ((ValidBodies \cup RefusedBodies) \ {NotJson})
    \cup {Dict([homeworks |-> Dict(<<>>)])}

Calls ==
    {[fn |-> "get_api_answer", timestamp |-> t, reply |-> r] :
        t \in 0..MaxDate, r \in Replies}
    \cup {[fn |-> "check_response", response |-> b] : b \in CallBodies}
    \cup {[fn |-> "parse_status", homework |-> h] :
            h \in FirstRecords \cup OtherRecords}

main_vars ==
    <<TOKENS, current_timestamp, status_cache, response, homeworks, homework,
      message, error, uncaught, request, fetched, attempts, start, prev,
      announced>>

InitCalls ==
    /\ TOKENS \in [{TOKEN_NAMES[i] : i \in 1..Len(TOKEN_NAMES)} -> {"t1"}]
    /\ pc = "call"
    /\ current_timestamp = Unbound
    /\ status_cache = Unbound
    /\ start = Unbound
    /\ Locals
    /\ call \in Calls
    /\ result = Unbound

\* homework.py:143-170
CallGetApiAnswer ==
    /\ pc = "call"
    /\ call.fn = "get_api_answer"
    /\ result' = get_api_answer(call.timestamp, call.reply)
    /\ pc' = "returned"
    /\ UNCHANGED <<main_vars, call>>

\* homework.py:173-184
CallCheckResponse ==
    /\ pc = "call"
    /\ call.fn = "check_response"
    /\ result' = check_response(call.response)
    /\ pc' = "returned"
    /\ UNCHANGED <<main_vars, call>>

\* homework.py:187-198
CallParseStatus ==
    /\ pc = "call"
    /\ call.fn = "parse_status"
    /\ result' = parse_status(call.homework)
    /\ pc' = "returned"
    /\ UNCHANGED <<main_vars, call>>

NextCalls == CallGetApiAnswer \/ CallCheckResponse \/ CallParseStatus

SpecCalls == InitCalls /\ [][NextCalls]_vars

Returned(fn) == pc = "returned" /\ call.fn = fn

(* C12: get_api_answer raises ConnectionError when the request cannot      *)
(* complete, StatusCodeError for every status code other than 200,         *)
(* ResponseError for every 200 response whose decoded body has an error    *)
(* key or a code key, either one being enough, and returns the decoded     *)
(* body otherwise.                                                         *)
C12_GetApiAnswerContract ==
    Returned("get_api_answer") =>
        LET r == call.reply
        IN  IF r.kind = "RequestException"
            THEN ~result.ok /\ result.exc.type = "ConnectionError"
            ELSE IF r.status_code # HTTPStatus_OK
            THEN ~result.ok /\ result.exc.type = "StatusCodeError"
            ELSE IF r.json = NotJson
            THEN TRUE   \* no decoded body: outside the statement
            ELSE IF Contains(r.json, "error") \/ Contains(r.json, "code")
            THEN ~result.ok /\ result.exc.type = "ResponseError"
            ELSE result = Return(r.json)

\* what get_api_answer does: ResponseError needs both keys, one key alone ends
\* in the KeyError of the lookup of the other one (homework.py:167-168)
C12_GetApiAnswerOutcomes ==
    Returned("get_api_answer") =>
        LET r == call.reply
        IN  IF r.kind = "RequestException"
            THEN ~result.ok /\ result.exc.type = "ConnectionError"
            ELSE IF r.status_code # HTTPStatus_OK
            THEN /\ ~result.ok
                 /\ result.exc.type = "StatusCodeError"
                 /\ result.exc.text =
                        Format("STATUS_CODE_ERROR",
                               <<r.status_code, [from_date |-> call.timestamp]>>)
            ELSE IF r.json = NotJson
            THEN ~result.ok /\ result.exc.type = "JSONDecodeError"
            ELSE IF Contains(r.json, "error") /\ Contains(r.json, "code")
            THEN ~result.ok /\ result.exc.type = "ResponseError"
            ELSE IF Contains(r.json, "error") \/ Contains(r.json, "code")
            THEN ~result.ok /\ result.exc.type = "builtins.KeyError"
            ELSE result = Return(r.json)

RaisedBy(r, type, text) == ~r.ok /\ r.exc.type = type /\ r.exc.text = text

(* C13, as stated: check_response raises TypeError for a value that is no  *)
(* dict, KeyError when homeworks is absent, TypeError when homeworks is    *)
(* present and no list, and in every other case returns the homeworks      *)
(* list unchanged.                                                         *)
C13_CheckResponseContract ==
    Returned("check_response") =>
        LET b == call.response
        IN  IF ~isinstance(b, "dict")
            THEN ~result.ok /\ result.exc.type = "TypeError"
            ELSE IF "homeworks" \notin DOMAIN b.val
            THEN ~result.ok /\ result.exc.type = "KeyError"
            ELSE IF ~isinstance(b.val["homeworks"], "list")
            THEN ~result.ok /\ result.exc.type = "TypeError"
            ELSE result = Return(b.val["homeworks"])

(* C13, amended: after the test for homeworks and before the test of its   *)
(* type, check_response raises KeyError when current_date is absent; with  *)
(* both keys present it raises TypeError for a homeworks that is no list   *)
(* and otherwise returns the homeworks list unchanged, empty or not.       *)
C13_CheckResponseNeedsBothKeys ==
    Returned("check_response") =>
        LET b == call.response
        IN  IF ~isinstance(b, "dict")
            THEN RaisedBy(result, "TypeError",
                          <<"TYPE_ERROR_RESPONSE", b.type>>)
            ELSE IF "homeworks" \notin DOMAIN b.val
            THEN RaisedBy(result, "KeyError", <<"KEY_ERROR", "homeworks">>)
            ELSE IF "current_date" \notin DOMAIN b.val
            THEN RaisedBy(result, "KeyError", <<"KEY_ERROR", "current_date">>)
            ELSE IF ~isinstance(b.val["homeworks"], "list")
            THEN RaisedBy(result, "TypeError",
                          <<"TYPE_ERROR_HOMEWORK", b.val["homeworks"].type>>)
            ELSE /\ result.ok
                 /\ result.val = b.val["homeworks"]

C13_Witness ==
    /\ Returned("check_response")
    /\ call.response = Dict([homeworks |-> List(<<>>)])
    /\ ~result.ok

ErrorAttempts(as) == {i \in 1..Len(as) : as[i].kind = "error"}

(* C14: a cycle makes at most one request to the API and at most two       *)
(* notification attempts, the status notification and, after a failure,    *)
(* the diagnostic one; no attempt is made twice in a cycle.                *)
C14_OneFetchTwoAttempts ==
    /\ fetched <= 1
    /\ Len(attempts) <= 2
    /\ Cardinality(StatusAttempts(attempts)) <= 1
    /\ Cardinality(ErrorAttempts(attempts)) <= 1
    /\ Len(attempts) = 2 =>
          /\ attempts[1].kind = "status"
          /\ ~attempts[1].delivered
          /\ attempts[2].kind = "error"
          /\ attempts[2].text # attempts[1].text
    /\ \A i \in 1..Len(attempts) :
          ~attempts[i].delivered => (i = Len(attempts) \/ attempts[i].kind = "status")

C14_Witness == CycleOver /\ fetched = 1 /\ Len(attempts) = 2

\* the attempts of a cycle without the outcome of the deliveries
Sent(as) == [i \in 1..Len(as) |-> <<as[i].kind, as[i].text>>]

\* what a cycle can leave behind when its response has the first record hw
\* and the date d and it began with PollCursor t0 and StatusCache c0: the
\* notification attempts, PollCursor and StatusCache.  delivered tells whether
\* the status notification, if one is attempted, is delivered.
CycleOutcome(hw, d, t0, c0, delivered) ==
    LET failed(text) ==
            [sent |-> <<<<"error", Format("ERROR", <<text>>)>>>>,
             timestamp |-> t0, cache |-> c0]
        parsed == parse_status(hw)
    IN  IF "status" \notin DOMAIN hw
        THEN failed(<<"status">>)
        ELSE IF hw["status"] = c0
        THEN [sent |-> <<>>, timestamp |-> d, cache |-> c0]
        ELSE IF ~parsed.ok
        THEN failed(parsed.exc.text)
        ELSE IF delivered
        THEN [sent |-> <<<<"status", parsed.val>>>>,
              timestamp |-> d, cache |-> hw["status"]]
        ELSE [sent |-> <<<<"status", parsed.val>>,
                         <<"error",
                           Format("ERROR",
                                  <<Format("MESSAGE_SEND_ERROR", <<parsed.val>>)>>)>>>>,
              timestamp |-> t0, cache |-> c0]

(* C15: only the first record of the list influences a cycle.  The          *)
(* attempts of a cycle and the PollCursor and StatusCache it leaves are a   *)
(* function of the first record, the current_date and the PollCursor and    *)
(* StatusCache it began with (and of whether the status notification was    *)
(* delivered): two responses that agree on the first record and the date    *)
(* give the same cycle, whatever records follow.                            *)
C15_OnlyFirstRecordCounts ==
    (CycleOver /\ HasRecord) =>
        [sent |-> Sent(attempts),
         timestamp |-> current_timestamp,
         cache |-> status_cache]
        = CycleOutcome(First, response.val["current_date"], start.timestamp,
                       start.cache,
                       attempts # <<>> /\ attempts[1].delivered)

C15_Witness ==
    /\ AtSleep
    /\ error = NoError
    /\ Len(homeworks.val) > 1
    /\ FirstHasStatus
    /\ "status" \in DOMAIN homeworks.val[2]
    /\ First["status"] \notin {start.cache, homeworks.val[2]["status"]}
    /\ start.cache = homeworks.val[2]["status"]

\* the text the source gives each status (homework.py:70-72)
C16_VerdictOf(status) ==
    CASE status = "approved"  -> "VERDICT_APPROVED"
      [] status = "reviewing" -> "VERDICT_REVIEWING"
      [] status = "rejected"  -> "VERDICT_REJECTED"

(* C16: for a record with a homework_name and a status that is a key of    *)
(* HOMEWORK_VERDICTS, parse_status returns the template PARSE_STATUS       *)
(* filled with that name and the text of that status; a record without     *)
(* homework_name or without status makes it raise KeyError.  (That two     *)
(* calls on the same record agree needs no check: parse_status reads       *)
(* nothing but its argument and the table.)                                *)
C16_ParseStatusContract ==
    Returned("parse_status") =>
        LET hw == call.homework
        IN  IF "homework_name" \notin DOMAIN hw
            THEN RaisedBy(result, "KeyError", <<"KEY_ERROR", "homework_name">>)
            ELSE IF "status" \notin DOMAIN hw
            THEN RaisedBy(result, "KeyError", <<"KEY_ERROR", "status">>)
            ELSE hw["status"] \in {"approved", "reviewing", "rejected"} =>
                    result = Return(<<"PARSE_STATUS", hw["homework_name"],
                                      C16_VerdictOf(hw["status"])>>)

C16_Witness ==
    /\ Returned("parse_status")
    /\ call.homework = Record("hw1", "rejected")
    /\ result.ok

AllPresent == \A n \in DOMAIN TOKENS : TOKENS[n] # None

(* C17: with all three settings present, check_tokens returns True without *)
(* raising and main reaches its loop, about to make its first request with *)
(* from_date = 0 and StatusCache = None.                                   *)
C17_AllTokensEnterLoop ==
    (AllPresent /\ pc # "main") =>
        /\ check_tokens(TOKENS) = Return(TRUE)
        /\ pc = "fetch"
        /\ uncaught = NoError
        /\ current_timestamp = 0
        /\ status_cache = None

(* C18: in the loop StatusCache is None or a key of HOMEWORK_VERDICTS, and *)
(* when it is not None it is the status announced by the last status       *)
(* notification that was delivered.                                        *)
C18_CacheIsAnnouncedStatus ==
    /\ status_cache \in {None} \cup DOMAIN HOMEWORK_VERDICTS
    /\ status_cache # None => status_cache = announced
    /\ status_cache = None => announced = None
    /\ \A i \in StatusAttempts(attempts) :
          attempts[i].delivered =>
              /\ status_cache = First["status"]
              /\ attempts[i].text =
                     <<"PARSE_STATUS", First["homework_name"],
                       HOMEWORK_VERDICTS[status_cache]>>

C18_Witness ==
    /\ AtSleep
    /\ StatusSent(attempts) = 1
    /\ prev.ran
    /\ start.cache # None
    /\ status_cache # start.cache

====
